---- MODULE Spec2Model ----
(***************************************************************************)
(* Model of msticpy/context/vtlookupv3/vtlookup.py: the VTLookup session   *)
(* (batching, duplicate detection, submission and response correlation).   *)
(*                                                                         *)
(* Strings are sequences of one-character strings, so that joining a batch *)
(* with its delimiter and splitting the submission string again are        *)
(* computed and not assumed.  A cell of the results table that pandas      *)
(* leaves empty (None/NaN) is the empty tuple None; a filled cell holding  *)
(* v is Some(v) = <<v>>.  Observable, IoCType, Status and SourceIndex are  *)
(* filled by every code path that appends a row and are stored bare.       *)
(***************************************************************************)
EXTENDS Integers, Sequences, FiniteSets, TLC

VARIABLES
    results,               \* self.results: the table, a sequence of rows
    ioc_custom_type_map,   \* self._ioc_custom_type_map
    pc,                    \* position of the session's single thread
    data,                  \* lookup_iocs: the caller's dataframe
    src_idx_col,           \* lookup_iocs: TRUE iff src_index_col is a column of data
    type_pos,              \* lookup_iocs: position of the for loop over the type map
    input_frame,           \* _lookup_ioc_type: the slice of data of this type
    row_num,               \* _lookup_ioc_type: rows of the slice consumed
    index,                 \* _lookup_ioc_type: index of the row last consumed
    obs_batch,             \* _lookup_ioc_type: pending batch
    source_row_index,      \* _lookup_ioc_type: dict observable -> index
    obs_submit,            \* _lookup_ioc_type: submission string in flight
    pp_observable,         \* _lookup_ioc_type: last return of _validate_observable
    vt_results,            \* _lookup_ioc_type: body the last Gateway call returned
    status_code,           \* _lookup_ioc_type: status the last Gateway call returned
    sent,                  \* the requests the Gateway received during this call
    accepted,              \* rows of this call that passed validation and the duplicate check
    calls,                 \* number of lookup_iocs calls started
    rows_given,            \* number of input rows the session was handed so far
    outcome,               \* how the last call ended
    retval,                \* what the last call returned to its caller
    lookup_ioc_args        \* lookup_ioc: the arguments of the call, when it was the last call

vars == <<results, ioc_custom_type_map, pc, data, src_idx_col, type_pos,
          input_frame, row_num, index, obs_batch, source_row_index,
          obs_submit, pp_observable, vt_results, status_code, sent,
          accepted, calls, rows_given, outcome, retval,
                   lookup_ioc_args>>

---------------------------------------------------------------------------
(* Optional values and strings *)

None == <<>>
Some(v) == <<v>>

Str(s) == s

StartsWith(s, d) == Len(s) >= Len(d) /\ SubSeq(s, 1, Len(d)) = d

RECURSIVE SplitAcc(_, _, _)
SplitAcc(s, d, cur) ==
    IF s = <<>> THEN <<cur>>
    ELSE IF StartsWith(s, d)
         THEN <<cur>> \o SplitAcc(SubSeq(s, Len(d) + 1, Len(s)), d, <<>>)
         ELSE SplitAcc(Tail(s), d, Append(cur, Head(s)))

\* str.split(sep) for a non-empty separator
Split(s, d) == SplitAcc(s, d, <<>>)

RECURSIVE Join(_, _)
\* sep.join(list)
Join(d, parts) ==
    IF parts = <<>> THEN <<>>
    ELSE IF Len(parts) = 1 THEN parts[1]
    ELSE parts[1] \o d \o Join(d, Tail(parts))

---------------------------------------------------------------------------
(* Type registry *)

_SUPPORTED_INPUT_TYPES ==
    <<"ipv4", "dns", "url", "md5_hash", "sha1_hash", "sh256_hash">>

\* variant: a seventh type name is mapped to the file descriptor
_VT_TYPE_MAP_WithPath ==
    [t \in {"ipv4", "dns", "url", "md5_hash", "sha1_hash", "sh256_hash",
            "file_path"} |->
        CASE t = "ipv4" -> "ip-address"
          [] t = "dns" -> "domain"
          [] t = "url" -> "url"
          [] OTHER -> "file"]

_VT_TYPE_MAP ==
    [t \in {"ipv4", "dns", "url", "md5_hash", "sha1_hash", "sh256_hash"} |->
        CASE t = "ipv4" -> "ip-address"
          [] t = "dns" -> "domain"
          [] t = "url" -> "url"
          [] OTHER -> "file"]

VTParams(api_type, batch_size, batch_delimiter, api_var_name) ==
    [api_type |-> api_type, batch_size |-> batch_size,
     batch_delimiter |-> batch_delimiter, api_var_name |-> api_var_name]

_VT_API_TYPES ==
    [a \in {"url", "file", "ip-address", "domain"} |->
        CASE a = "url" -> VTParams("url", 1, <<"\n">>, "resource")
          [] a = "file" -> VTParams("file", 25, <<",">>, "resource")
          [] a = "ip-address" -> VTParams("ip-address", 1, <<>>, "ip")
          [] OTHER -> VTParams("domain", 1, <<>>, "domain")]

\* _lookup_ioc_type, line 390
VtParamOf(ioc_type) == _VT_API_TYPES[_VT_TYPE_MAP[ioc_type]]

\* _get_supported_vt_ioc_types: no type is mapped to None
SupportedVtIocTypes == _SUPPORTED_INPUT_TYPES

\* httpx.codes.OK
OK == 200

---------------------------------------------------------------------------
(* JSON values: a parsed body is a record tagged with its Python type *)

JDict(d) == [kind |-> "dict", val |-> d]
JList(l) == [kind |-> "list", val |-> l]
JStr(t) == [kind |-> "str", val |-> t]
JNum(n) == [kind |-> "num", val |-> n]
NoneResult == [kind |-> "none"]
NotJson == [kind |-> "notjson"]

\* json.dumps: the serialized text of a value
JsonDumps(j) == <<"json", j>>

\* json.loads under contextlib.suppress(JSONDecodeError, TypeError):
\* the decoded value, or the text itself left in place when it does not decode
JsonLoads(j) ==
    IF j.val # <<>> /\ j.val[1] = "json" THEN j.val[2] ELSE j

\* dict.get(key, None)
Get(d, k) == IF k \in DOMAIN d THEN Some(d[k]) ELSE None

\* source_row_index[key] = value
DictSet(d, k, v) == [x \in DOMAIN d \cup {k} |-> IF x = k THEN v ELSE d[x]]

RECURSIVE Sum(_)
Sum(s) == IF s = <<>> THEN 0 ELSE Head(s) + Sum(Tail(s))

RECURSIVE Pluck(_, _)
\* [item[key] for item in items if key in item]
Pluck(items, key) ==
    IF items = <<>> THEN <<>>
    ELSE IF key \in DOMAIN Head(items)
         THEN <<Head(items)[key]>> \o Pluck(Tail(items), key)
         ELSE Pluck(Tail(items), key)

CommaSpace == <<",", " ">>

---------------------------------------------------------------------------
(* The results table *)

\* the cells a new row leaves empty (columns of _RESULT_COLUMNS)
BlankCells ==
    [ResponseCode |-> None, RawResponse |-> None, Resource |-> None,
     VerboseMsg |-> None, ScanId |-> None, Permalink |-> None,
     Positives |-> None, MD5 |-> None, SHA1 |-> None, SHA256 |-> None,
     ResolvedDomains |-> None, ResolvedIPs |-> None, DetectedUrls |-> None]

\* the status text is also stored as the raw response
AddInvalidInputResult_RawStatus(res, observable, ioc_type, status, source_idx) ==
    Append(res,
           [Observable |-> observable, IoCType |-> ioc_type,
            Status |-> status, SourceIndex |-> source_idx,
            RawResponse |-> Some(status)] @@ BlankCells)

\* _add_invalid_input_result
AddInvalidInputResult(res, observable, ioc_type, status, source_idx) ==
    Append(res,
           [Observable |-> observable, IoCType |-> ioc_type,
            Status |-> status, SourceIndex |-> source_idx] @@ BlankCells)

\* line 448
FailedStatus(code) ==
    "Failed submission: http error " \o ToString(code)

\* one failure row for the whole batch
AddFailedBatch_OneRow(res, batch, ioc_type, status, sri) ==
    AddInvalidInputResult(res, batch[1], ioc_type, status, sri[batch[1]])

\* the first member of a failed batch gets no failure row
AddFailedBatch_SkipsFirst(res, batch, ioc_type, status, sri) ==
    LET rest == Tail(batch)
    IN  res \o [i \in 1..Len(rest) |->
                   [Observable |-> rest[i], IoCType |-> ioc_type,
                    Status |-> status, SourceIndex |-> sri[rest[i]]]
                   @@ BlankCells]

RECURSIVE AddFailedBatch(_, _, _, _, _)
\* lines 449-455: one failure row per member of the batch
AddFailedBatch(res, batch, ioc_type, status, sri) ==
    IF batch = <<>> THEN res
    ELSE AddFailedBatch(
             AddInvalidInputResult(res, Head(batch), ioc_type, status,
                                   sri[Head(batch)]),
             Tail(batch), ioc_type, status, sri)

HashTypes == {"md5_hash", "sha1_hash", "sh256_hash"}

\* only the first matching row is taken
DuplicateRows_FirstOnly(res, observable, ioc_type) ==
    LET byObservable == SelectSeq(res, LAMBDA r : r.Observable = observable)
    IN  IF byObservable = <<>> THEN <<>> ELSE <<byObservable[1]>>

\* the fallback searches the MD5 column only
DuplicateRows_Md5Only(res, observable, ioc_type) ==
    LET byObservable == SelectSeq(res, LAMBDA r : r.Observable = observable)
        byHash == SelectSeq(res, LAMBDA r : r.MD5 = Some(observable))
    IN  IF byObservable = <<>> /\ ioc_type \in HashTypes
        THEN [i \in 1..Len(byHash) |->
                 [byHash[i] EXCEPT !.Observable = observable]]
        ELSE byObservable

\* _check_duplicate_submission lines 755-773: the rows of past results
\* that duplicate the observable
DuplicateRows(res, observable, ioc_type) ==
    LET byObservable == SelectSeq(res, LAMBDA r : r.Observable = observable)
        byHash == SelectSeq(res, LAMBDA r :
                      \/ r.MD5 = Some(observable)
                      \/ r.SHA1 = Some(observable)
                      \/ r.SHA256 = Some(observable))
    IN  IF byObservable = <<>> /\ ioc_type \in HashTypes
        THEN [i \in 1..Len(byHash) |->
                 [byHash[i] EXCEPT !.Observable = observable]]
        ELSE byObservable

\* the positions of the matched rows instead of their SourceIndex
OriginalIndices_Positions(duplicate) ==
    [i \in 1..Len(duplicate) |-> i]

\* lines 778-780
OriginalIndices(duplicate) ==
    [i \in 1..Len(duplicate) |-> duplicate[i].SourceIndex]

\* the matched rows themselves are marked and re-indexed, then copied
CheckDuplicateSubmission_InPlace(res, observable, ioc_type, source_index) ==
    LET duplicate == DuplicateRows(res, observable, ioc_type)
        original_indices == OriginalIndices(duplicate)
        marked ==
            [i \in 1..Len(res) |->
                IF \E k \in 1..Len(duplicate) :
                       duplicate[k] = [res[i] EXCEPT !.Observable = observable]
                THEN [res[i] EXCEPT !.SourceIndex = source_index,
                                    !.Status = "Duplicate"]
                ELSE res[i]]
        clones ==
            [i \in 1..Len(duplicate) |->
                [duplicate[i] EXCEPT !.SourceIndex = source_index,
                                     !.Status = "Duplicate"]]
    IN  IF duplicate # <<>>
        THEN [is_dup |-> TRUE,
              status |-> <<"Duplicates of", original_indices>>,
              results |-> marked \o clones]
        ELSE [is_dup |-> FALSE, status |-> <<"ok", <<>>>>, results |-> res]

\* _check_duplicate_submission
CheckDuplicateSubmission(res, observable, ioc_type, source_index) ==
    LET duplicate == DuplicateRows(res, observable, ioc_type)
        original_indices == OriginalIndices(duplicate)
        clones ==
            [i \in 1..Len(duplicate) |->
                [duplicate[i] EXCEPT !.SourceIndex = source_index,
                                     !.Status = "Duplicate"]]
    IN  IF duplicate # <<>>
        THEN [is_dup |-> TRUE,
              status |-> <<"Duplicates of", original_indices>>,
              results |-> res \o clones]
        ELSE [is_dup |-> FALSE, status |-> <<"ok", <<>>>>, results |-> res]

---------------------------------------------------------------------------
(* The Sanitizer (preprocess_observable): validate(rawValue, type) gives a *)
(* normalized value or a failure reason.  An empty value and a value with  *)
(* a character that is not legal in an observable are malformed; the       *)
(* normalized form of a well-formed value is its lower-case form.          *)

IllegalChars == {"!"}

LowerChar(c) ==
    CASE c = "A" -> "a"
      [] c = "B" -> "b"
      [] c = "C" -> "c"
      [] OTHER -> c

Normalize(observable) ==
    [i \in 1..Len(observable) |-> LowerChar(observable[i])]

SanitizedObservable(observable, status) ==
    [observable |-> observable, status |-> status]

preprocess_observable(observable, ioc_type) ==
    IF observable = <<>>
       \/ \E i \in 1..Len(observable) : observable[i] \in IllegalChars
    THEN SanitizedObservable(None,
             <<"Observable does not match expected pattern", <<>>>>)
    ELSE SanitizedObservable(Some(Normalize(observable)), <<"ok", <<>>>>)

\* the duplicate check comes before the format check
ValidateObservable_DupFirst(res, observable, ioc_type, idx) ==
    LET pp == preprocess_observable(observable, ioc_type)
        dup_result == CheckDuplicateSubmission(res, observable, ioc_type, idx)
    IN  IF dup_result.is_dup
        THEN [pp |-> SanitizedObservable(None, dup_result.status),
              results |-> dup_result.results]
        ELSE IF pp.observable = None
        THEN [pp |-> pp,
              results |-> AddInvalidInputResult(res, observable, ioc_type,
                                                pp.status[1], idx)]
        ELSE [pp |-> pp, results |-> res]

\* _validate_observable: the returned SanitizedObservable and the table
\* after the rows the validation appended
ValidateObservable(res, observable, ioc_type, idx) ==
    LET pp == preprocess_observable(observable, ioc_type)
        dup_result == CheckDuplicateSubmission(res, observable, ioc_type, idx)
    IN  IF pp.observable = None
        THEN [pp |-> pp,
              results |-> AddInvalidInputResult(res, observable, ioc_type,
                                                pp.status[1], idx)]
        ELSE IF dup_result.is_dup
        THEN [pp |-> SanitizedObservable(None, dup_result.status),
              results |-> dup_result.results]
        ELSE [pp |-> pp, results |-> res]

---------------------------------------------------------------------------
(* Response parsing *)

\* variant: an ip-address or domain row takes the top-level "positives"
\* of the element when it has one
ParseSingleResult_TopLevel(results_dict, ioc_type) ==
    LET common ==
            [ResponseCode |-> Get(results_dict, "response_code"),
             VerboseMsg |-> Get(results_dict, "verbose_msg")]
        scan ==
            IF ioc_type \in {"url", "md5_hash", "sha1_hash", "sha256_hash"}
            THEN common @@
                 [ScanId |-> Get(results_dict, "scan_id"),
                  Resource |-> Get(results_dict, "resource"),
                  Permalink |-> Get(results_dict, "permalink"),
                  Positives |-> Get(results_dict, "positives")]
            ELSE <<>>
        hashes ==
            IF ioc_type \in {"md5_hash", "sha1_hash", "sha256_hash"}
            THEN [MD5 |-> Get(results_dict, "md5"),
                  SHA1 |-> Get(results_dict, "sha1"),
                  SHA256 |-> Get(results_dict, "sha256")]
            ELSE <<>>
        resolved ==
            IF ioc_type = "ipv4" /\ "resolutions" \in DOMAIN results_dict
            THEN [ResolvedDomains |->
                     Some(Join(CommaSpace,
                               Pluck(results_dict["resolutions"], "hostname")))]
            ELSE IF ioc_type = "dns" /\ "resolutions" \in DOMAIN results_dict
            THEN [ResolvedIPs |->
                     Some(Join(CommaSpace,
                               Pluck(results_dict["resolutions"], "ip_address")))]
            ELSE <<>>
        detected ==
            IF "detected_urls" \in DOMAIN results_dict
            THEN [DetectedUrls |->
                     Some(Join(CommaSpace,
                               Pluck(results_dict["detected_urls"], "url"))),
                  Positives |->
                     IF "positives" \in DOMAIN results_dict
                     THEN Get(results_dict, "positives")
                     ELSE Some(Sum(Pluck(results_dict["detected_urls"],
                                         "positives")))]
            ELSE <<>>
        net ==
            IF ioc_type \in {"ipv4", "dns"}
            THEN detected @@ resolved @@ common
            ELSE <<>>
    IN  net @@ hashes @@ scan @@ BlankCells

\* _parse_single_result: the cells extracted from one response element
ParseSingleResult(results_dict, ioc_type) ==
    LET common ==
            [ResponseCode |-> Get(results_dict, "response_code"),
             VerboseMsg |-> Get(results_dict, "verbose_msg")]
        scan ==
            IF ioc_type \in {"url", "md5_hash", "sha1_hash", "sha256_hash"}
            THEN common @@
                 [ScanId |-> Get(results_dict, "scan_id"),
                  Resource |-> Get(results_dict, "resource"),
                  Permalink |-> Get(results_dict, "permalink"),
                  Positives |-> Get(results_dict, "positives")]
            ELSE <<>>
        hashes ==
            IF ioc_type \in {"md5_hash", "sha1_hash", "sha256_hash"}
            THEN [MD5 |-> Get(results_dict, "md5"),
                  SHA1 |-> Get(results_dict, "sha1"),
                  SHA256 |-> Get(results_dict, "sha256")]
            ELSE <<>>
        resolved ==
            IF ioc_type = "ipv4" /\ "resolutions" \in DOMAIN results_dict
            THEN [ResolvedDomains |->
                     Some(Join(CommaSpace,
                               Pluck(results_dict["resolutions"], "hostname")))]
            ELSE IF ioc_type = "dns" /\ "resolutions" \in DOMAIN results_dict
            THEN [ResolvedIPs |->
                     Some(Join(CommaSpace,
                               Pluck(results_dict["resolutions"], "ip_address")))]
            ELSE <<>>
        detected ==
            IF "detected_urls" \in DOMAIN results_dict
            THEN [DetectedUrls |->
                     Some(Join(CommaSpace,
                               Pluck(results_dict["detected_urls"], "url"))),
                  Positives |->
                     Some(Sum(Pluck(results_dict["detected_urls"], "positives")))]
            ELSE <<>>
        net ==
            IF ioc_type \in {"ipv4", "dns"}
            THEN detected @@ resolved @@ common
            ELSE <<>>
    IN  net @@ hashes @@ scan @@ BlankCells

\* the element's position decides, its "resource" field is not read
Correlate_ByPosition(results_to_parse, result_idx, observable, observables, source_idx, row_index) ==
    IF \/ Len(results_to_parse) = 1
       \/ row_index = None
       \/ Cardinality(DOMAIN row_index[1]) = 1
    THEN [raised |-> FALSE, Observable |-> observable,
          SourceIndex |-> source_idx]
    ELSE IF result_idx > Len(observables) THEN [raised |-> TRUE]
    ELSE [raised |-> FALSE,
          Observable |-> observables[result_idx],
          SourceIndex |-> row_index[1][observables[result_idx]]]

\* the "resource" field is matched before the direct assignment is tried
Correlate_ResourceFirst(results_to_parse, result_idx, observable, observables, source_idx, row_index) ==
    LET elem == results_to_parse[result_idx]
    IN  IF /\ row_index # None
           /\ "resource" \in DOMAIN elem
           /\ elem["resource"] \in DOMAIN row_index[1]
        THEN [raised |-> FALSE, Observable |-> elem["resource"],
              SourceIndex |-> row_index[1][elem["resource"]]]
        ELSE [raised |-> FALSE, Observable |-> observable,
              SourceIndex |-> source_idx]

\* result_idx (counted from 1); raised when the code indexes past the end
\* of observables or looks up a key the dict does not hold
Correlate(results_to_parse, result_idx, observable, observables, source_idx, row_index) ==
    LET elem == results_to_parse[result_idx]
        positional ==
            IF result_idx > Len(observables) THEN [raised |-> TRUE]
            ELSE IF observables[result_idx] \notin DOMAIN row_index[1]
            THEN [raised |-> TRUE]
            ELSE [raised |-> FALSE,
                  Observable |-> observables[result_idx],
                  SourceIndex |-> row_index[1][observables[result_idx]]]
    IN  IF \/ Len(results_to_parse) = 1
           \/ row_index = None
           \/ Cardinality(DOMAIN row_index[1]) = 1
        THEN [raised |-> FALSE, Observable |-> observable,
              SourceIndex |-> source_idx]
        ELSE IF "resource" \in DOMAIN elem
        THEN IF elem["resource"] \in DOMAIN row_index[1]
             THEN [raised |-> FALSE, Observable |-> elem["resource"],
                   SourceIndex |-> row_index[1][elem["resource"]]]
             ELSE IF positional.raised THEN positional
             ELSE [positional EXCEPT !.Observable = elem["resource"]]
        ELSE positional

RECURSIVE ParseLoop_Prepends(_, _, _, _, _, _, _, _)
\* the row of each element is put in front of the table
ParseLoop_Prepends(res, results_to_parse, result_idx, observable, observables, ioc_type, source_idx, row_index) ==
    IF result_idx > Len(results_to_parse)
    THEN [raised |-> FALSE, results |-> res]
    ELSE LET elem == results_to_parse[result_idx]
             c == Correlate(results_to_parse, result_idx, observable,
                            observables, source_idx, row_index)
             row == [Observable |-> c.Observable, IoCType |-> ioc_type,
                     Status |-> "Success", SourceIndex |-> c.SourceIndex,
                     RawResponse |-> Some(JsonDumps(JDict(elem)))]
                    @@ ParseSingleResult(elem, ioc_type)
         IN  IF c.raised THEN [raised |-> TRUE, results |-> res]
             ELSE ParseLoop_Prepends(<<row>> \o res, results_to_parse,
                                     result_idx + 1, observable, observables,
                                     ioc_type, source_idx, row_index)

RECURSIVE ParseLoop(_, _, _, _, _, _, _, _)
\* lines 530-572: the for loop over results_to_parse, from element result_idx
ParseLoop(res, results_to_parse, result_idx, observable, observables, ioc_type, source_idx, row_index) ==
    IF result_idx > Len(results_to_parse)
    THEN [raised |-> FALSE, results |-> res]
    ELSE LET elem == results_to_parse[result_idx]
             c == Correlate(results_to_parse, result_idx, observable,
                            observables, source_idx, row_index)
             row == [Observable |-> c.Observable, IoCType |-> ioc_type,
                     Status |-> "Success", SourceIndex |-> c.SourceIndex,
                     RawResponse |-> Some(JsonDumps(JDict(elem)))]
                    @@ ParseSingleResult(elem, ioc_type)
         IN  IF c.raised THEN [raised |-> TRUE, results |-> res]
             ELSE ParseLoop(Append(res, row), results_to_parse,
                            result_idx + 1, observable, observables,
                            ioc_type, source_idx, row_index)

\* a body that is neither a list nor an object is an error
ParseVtResults_RaisesOnShape(res, vt_res, observable, ioc_type, source_idx, row_index, vt_param) ==
    LET decoded == IF vt_res.kind = "str" THEN JsonLoads(vt_res) ELSE vt_res
        results_to_parse ==
            IF /\ decoded.kind = "list"
               /\ vt_param # None
               /\ vt_param[1].batch_size > 1
            THEN decoded.val
            ELSE IF decoded.kind = "dict" THEN <<decoded.val>>
            ELSE <<>>
        observables ==
            IF vt_param # None /\ vt_param[1].batch_delimiter # <<>>
            THEN Split(observable, vt_param[1].batch_delimiter)
            ELSE <<observable>>
    IN  IF decoded.kind \notin {"list", "dict"}
        THEN [raised |-> TRUE, results |-> res]
        ELSE ParseLoop(res, results_to_parse, 1, observable, observables,
                       ioc_type, source_idx, row_index)

\* a list is parsed element by element whatever the descriptor
ParseVtResults_ListAlways(res, vt_res, observable, ioc_type, source_idx, row_index, vt_param) ==
    LET decoded == IF vt_res.kind = "str" THEN JsonLoads(vt_res) ELSE vt_res
        results_to_parse ==
            IF decoded.kind = "list" THEN decoded.val
            ELSE IF decoded.kind = "dict" THEN <<decoded.val>>
            ELSE <<>>
        observables ==
            IF vt_param # None /\ vt_param[1].batch_delimiter # <<>>
            THEN Split(observable, vt_param[1].batch_delimiter)
            ELSE <<observable>>
    IN  ParseLoop(res, results_to_parse, 1, observable, observables,
                  ioc_type, source_idx, row_index)

\* _parse_vt_results; row_index (the source_row_index argument) and vt_param are None or Some(value)
ParseVtResults(res, vt_res, observable, ioc_type, source_idx, row_index, vt_param) ==
    LET decoded ==
            IF vt_res.kind = "str" THEN JsonLoads(vt_res)
            ELSE vt_res
        results_to_parse ==
            IF /\ decoded.kind = "list"
               /\ vt_param # None
               /\ vt_param[1].batch_size > 1
            THEN decoded.val
            ELSE IF decoded.kind = "dict" THEN <<decoded.val>>
            ELSE <<>>
        observables ==
            IF vt_param # None /\ vt_param[1].batch_delimiter # <<>>
            THEN Split(observable, vt_param[1].batch_delimiter)
            ELSE <<observable>>
    IN  ParseLoop(res, results_to_parse, 1, observable, observables,
                  ioc_type, source_idx, row_index)

\* _vt_submit_request, lines 874-882: what the call hands back for an HTTP
\* response, or raised when response.json() fails on a 2xx response
VtSubmitRequest(response) ==
    IF response.status_code \div 100 = 2
    THEN IF response.body.kind = "notjson"
         THEN [raised |-> TRUE]
         ELSE [raised |-> FALSE, results |-> response.body,
               status_code |-> response.status_code]
    ELSE [raised |-> FALSE,
          results |-> IF response.body.kind = "notjson" THEN NoneResult
                      ELSE response.body,
          status_code |-> response.status_code]

---------------------------------------------------------------------------
(* The session *)

Init ==
    /\ results = <<>>
    /\ ioc_custom_type_map = <<>>
    /\ pc = "idle"
    /\ data = <<>>
    /\ src_idx_col = FALSE
    /\ type_pos = 0
    /\ input_frame = <<>>
    /\ row_num = 0
    /\ index = 0
    /\ obs_batch = <<>>
    /\ source_row_index = <<>>
    /\ obs_submit = <<>>
    /\ pp_observable = SanitizedObservable(None, <<"ok", <<>>>>)
    /\ vt_results = NoneResult
    /\ status_code = 0
    /\ sent = <<>>
    /\ accepted = <<>>
    /\ calls = 0
    /\ rows_given = 0
    /\ outcome = "none"
    /\ retval = None
    /\ lookup_ioc_args = None

\* the canonical type of the pass of the type loop the session is in
ioc_type == _SUPPORTED_INPUT_TYPES[type_pos]

row_count == Len(input_frame)

\* a flush only at the end of the slice
FlushTriggered_OnlyAtEnd(batch, batch_size, rn, rc) ==
    rn = rc /\ batch # <<>>

\* a flush once the batch exceeds the batch size
FlushTriggered_Exceeds(batch, batch_size, rn, rc) ==
    (Len(batch) > batch_size \/ rn = rc) /\ batch # <<>>

\* a flush only of a full batch
FlushTriggered_OnlyWhenFull(batch, batch_size, rn, rc) ==
    Len(batch) = batch_size /\ batch # <<>>

\* lines 430-432
FlushTriggered(batch, batch_size, rn, rc) ==
    (Len(batch) = batch_size \/ rn = rc) /\ batch # <<>>

\* lookup_iocs, lines 256-264: the type map is rebuilt and the loop over it starts
LookupIocs(d, has_src_col, kwargs) ==
    /\ pc = "idle"
    /\ ioc_custom_type_map' =
           [k \in {SupportedVtIocTypes[i] : i \in DOMAIN SupportedVtIocTypes} |->
               IF k \in DOMAIN kwargs THEN kwargs[k] ELSE k]
    /\ data' = d
    /\ src_idx_col' = has_src_col
    /\ type_pos' = 1
    /\ pc' = "types"
    /\ calls' = calls + 1
    /\ rows_given' = rows_given + Len(d)
    /\ outcome' = "running"
    /\ retval' = None
    /\ lookup_ioc_args' = None
    /\ vt_results' = NoneResult
    /\ status_code' = 0
    /\ sent' = <<>>
    /\ UNCHANGED <<results, input_frame, row_num, index, obs_batch,
                   source_row_index, obs_submit, pp_observable, accepted>>

\* lookup_iocs line 268 and _lookup_ioc_type lines 386-401: the slice of
\* the next type is taken and the locals of the row loop are set up
LookupIocType ==
    /\ pc = "types"
    /\ type_pos <= Len(_SUPPORTED_INPUT_TYPES)
    /\ input_frame' =
           SelectSeq(data, LAMBDA r : r.IoCType = ioc_custom_type_map[ioc_type])
    /\ source_row_index' = <<>>
    /\ obs_batch' = <<>>
    /\ row_num' = 0
    /\ pc' = "rows"
    /\ UNCHANGED <<results, ioc_custom_type_map, data, src_idx_col, type_pos,
                   index, obs_submit, pp_observable, vt_results, status_code,
                   sent, accepted, calls, rows_given, outcome, retval,
                   lookup_ioc_args>>

\* _lookup_ioc_type lines 403-444: one pass of the row loop up to the
\* Gateway call, or to the end of the pass when no flush is triggered
ProcessRow ==
    /\ pc = "rows"
    /\ row_num < row_count
    /\ LET row == input_frame[row_num + 1]
           observable == row.Observable
           idx == IF src_idx_col THEN row.SourceIndex ELSE row.idx
           v == ValidateObservable(results, observable, ioc_type, idx)
           valid == v.pp.observable # None /\ v.pp.observable[1] # <<>>
           batch == IF valid THEN Append(obs_batch, v.pp.observable[1])
                    ELSE obs_batch
           vt_param == VtParamOf(ioc_type)
       IN  /\ row_num' = row_num + 1
           /\ index' = idx
           /\ pp_observable' = v.pp
           /\ results' = v.results
           /\ obs_batch' = batch
           /\ source_row_index' =
                  IF valid
                  THEN DictSet(source_row_index, v.pp.observable[1], idx)
                  ELSE source_row_index
           /\ accepted' =
                  IF valid
                  THEN Append(accepted, [Observable |-> v.pp.observable[1],
                                         SourceIndex |-> idx,
                                         ioc_type |-> ioc_type])
                  ELSE accepted
           /\ IF FlushTriggered(batch, vt_param.batch_size, row_num + 1,
                                row_count)
              THEN /\ obs_submit' = Join(vt_param.batch_delimiter, batch)
                   /\ sent' = Append(sent,
                          [call |-> calls, ioc_type |-> ioc_type,
                           obs_submit |-> Join(vt_param.batch_delimiter, batch),
                           obs_batch |-> batch, row_num |-> row_num + 1])
                   /\ pc' = "submit"
              ELSE /\ pc' = "rows"
                   /\ UNCHANGED <<obs_submit, sent>>
    /\ UNCHANGED <<ioc_custom_type_map, data, src_idx_col, type_pos,
                   input_frame, vt_results, status_code, calls, rows_given,
                   outcome, retval,
                   lookup_ioc_args>>

\* the batch is reset in the success branch only
BatchAfterSubmit_KeepOnFailure(batch, code) ==
    IF code # OK THEN batch ELSE <<>>

\* lines 475-477: the batch is reset after either branch
BatchAfterSubmit(batch, code) == <<>>

\* the frames of lookup_iocs and _lookup_ioc_type are gone: their locals
\* hold nothing, and the Gateway has no request of a call in progress
Unwind ==
    /\ data' = <<>>
    /\ src_idx_col' = FALSE
    /\ type_pos' = 0
    /\ input_frame' = <<>>
    /\ row_num' = 0
    /\ index' = 0
    /\ obs_batch' = <<>>
    /\ source_row_index' = <<>>
    /\ obs_submit' = <<>>
    /\ pp_observable' = SanitizedObservable(None, <<"ok", <<>>>>)
    /\ vt_results' = NoneResult
    /\ status_code' = 0
    /\ sent' = <<>>
    /\ accepted' = <<>>

\* _lookup_ioc_type lines 444-477: the Gateway call ends for the HTTP
\* response it got; failure rows or parsed rows are appended and the batch
\* is reset.  An exception ends the call of lookup_iocs.
SubmitReturn(response) ==
    /\ pc = "submit"
    /\ LET r == VtSubmitRequest(response)
           parsed == ParseVtResults(results, r.results, obs_submit, ioc_type,
                                    index, Some(source_row_index),
                                    Some(VtParamOf(ioc_type)))
           raised == r.raised \/ (r.status_code = OK /\ parsed.raised)
       IN  /\ results' =
                  IF r.raised THEN results
                  ELSE IF r.status_code # OK
                  THEN AddFailedBatch(results, obs_batch, ioc_type,
                                      FailedStatus(r.status_code),
                                      source_row_index)
                  ELSE parsed.results
           /\ IF raised
              THEN /\ pc' = "idle"
                   /\ outcome' = "raised"
                   /\ Unwind
              ELSE /\ pc' = "rows"
                   /\ obs_batch' = BatchAfterSubmit(obs_batch, r.status_code)
                   /\ vt_results' = r.results
                   /\ status_code' = r.status_code
                   /\ UNCHANGED <<data, src_idx_col, type_pos, input_frame,
                                  row_num, index, source_row_index,
                                  obs_submit, pp_observable, sent, accepted,
                                  outcome>>
    /\ UNCHANGED <<ioc_custom_type_map, calls, rows_given, retval,
                   lookup_ioc_args>>

\* _lookup_ioc_type returns whatever rows are left
LookupIocTypeReturn_Early ==
    /\ pc = "rows"
    /\ type_pos' = type_pos + 1
    /\ pc' = "types"
    /\ UNCHANGED <<results, ioc_custom_type_map, data, src_idx_col,
                   input_frame, row_num, index, obs_batch, source_row_index,
                   obs_submit, pp_observable, vt_results, status_code, sent,
                   accepted, calls, rows_given, outcome, retval,
                   lookup_ioc_args>>

\* _lookup_ioc_type returns when the row loop is exhausted
LookupIocTypeReturn ==
    /\ pc = "rows"
    /\ row_num = row_count
    /\ type_pos' = type_pos + 1
    /\ pc' = "types"
    /\ UNCHANGED <<results, ioc_custom_type_map, data, src_idx_col,
                   input_frame, row_num, index, obs_batch, source_row_index,
                   obs_submit, pp_observable, vt_results, status_code, sent,
                   accepted, calls, rows_given, outcome, retval,
                   lookup_ioc_args>>

\* lookup_iocs lines 271-276: the type loop is exhausted
LookupIocsReturn ==
    /\ pc = "types"
    /\ type_pos > Len(_SUPPORTED_INPUT_TYPES)
    /\ pc' = "idle"
    /\ outcome' = "returned"
    /\ retval' = Some([kind |-> "frame"])
    /\ Unwind
    /\ UNCHANGED <<results, ioc_custom_type_map, calls, rows_given,
                   lookup_ioc_args>>

\* lookup_ioc lines 341-355: what the call gives back for the table it
\* left: self.results itself, or its rows as records (the one record when
\* the table has exactly one row)
LookupIocResult(res, output) ==
    IF output = "dict"
    THEN IF Len(res) = 1 THEN [kind |-> "record", val |-> res[1]]
         ELSE [kind |-> "list", val |-> res]
    ELSE [kind |-> "frame"]

\* lookup_ioc: the whole call for the HTTP response its request gets.  The
\* status code of the response is dropped (line 344) and the parser is
\* handed no source index, no index map and no descriptor (line 345).
LookupIoc(observable, type, output, response) ==
    /\ pc = "idle"
    /\ LET pp == preprocess_observable(observable, type)
           early == \/ pp.observable = None
                    \/ type \notin DOMAIN _VT_TYPE_MAP
                    \/ _VT_TYPE_MAP[type] \notin DOMAIN _VT_API_TYPES
           r == VtSubmitRequest(response)
           parsed == ParseVtResults(results, r.results, pp.observable[1],
                                    type, 0, None, None)
       IN  IF early
           THEN /\ outcome' = "raised"
                /\ retval' = None
                /\ sent' = <<>>
                /\ vt_results' = NoneResult
                /\ status_code' = 0
                /\ UNCHANGED results
           ELSE /\ sent' = <<[call |-> calls + 1, ioc_type |-> type,
                             obs_submit |-> pp.observable[1],
                             obs_batch |-> <<pp.observable[1]>>,
                             row_num |-> 0]>>
                /\ IF r.raised \/ parsed.raised
                   THEN /\ outcome' = "raised"
                        /\ retval' = None
                        /\ vt_results' = NoneResult
                        /\ status_code' = 0
                        /\ UNCHANGED results
                   ELSE /\ outcome' = "returned"
                        /\ results' = parsed.results
                        /\ retval' =
                               Some(LookupIocResult(parsed.results, output))
                        /\ vt_results' = r.results
                        /\ status_code' = r.status_code
    /\ calls' = calls + 1
    /\ lookup_ioc_args' =
           Some([observable |-> observable, ioc_type |-> type,
                 output |-> output])
    /\ UNCHANGED <<ioc_custom_type_map, pc, data, src_idx_col, type_pos,
                   input_frame, row_num, index, obs_batch, source_row_index,
                   obs_submit, pp_observable, accepted, rows_given>>

---------------------------------------------------------------------------
(* Inputs: the caller's tables and the Gateway's HTTP responses *)

MaxRows == 3
MaxCalls == 2
MaxExtraRows == 2

\* a row of the caller's dataframe at position pos (counted from 1); the
\* dataframe's own index counts from 0
DataRow(observable, tag, pos, base) ==
    [Observable |-> observable, IoCType |-> tag, SourceIndex |-> base + pos,
     idx |-> pos - 1]

SmallValues == {<<"a">>, <<"b">>, <<"A">>, <<"!">>}
SmallTags == {"url", "md5_hash"}

HashValues == {<<"a">>, <<"b">>, <<"c">>}
HashTags == {"url", "md5_hash", "sh256_hash"}

\* the tables of a call: a session is handed MaxRows rows at most; the
\* SourceIndex column tells the calls apart
IndexBase(call) == 10 * call

Tables(values, tags, call, n_max) ==
    UNION {
      {[i \in 1..n |-> DataRow(f[i][1], f[i][2], i, IndexBase(call))] :
         f \in [1..n -> values \X tags]} : n \in 0..n_max}

Letters ==
    <<"a", "b", "c", "d", "e", "f", "g", "h", "i", "j", "k", "l", "m", "n",
      "o", "p", "q", "r", "s", "t", "u", "v", "w", "x", "y", "z", "0", "1",
      "2", "3", "4", "5", "6", "7", "8", "9">>

LongVal(i) == <<"h", Letters[i]>>
UrlVal(i) == <<"u", Letters[i]>>

FileBatchSize == _VT_API_TYPES["file"].batch_size

SingleTags == {"url", "ipv4", "dns"}

\* u rows with distinct values of the types that are not batched, then n
\* md5_hash rows with distinct values, of which row p (if any) is malformed
\* ("bad") or repeats the value of the first md5_hash row ("rep")
BatchTable(u, single_tag, n, p, k) ==
    [i \in 1..(u + n) |->
        IF i <= u THEN DataRow(UrlVal(i), single_tag, i, 0)
        ELSE DataRow(IF i - u = p /\ k = "bad" THEN <<"!">>
                     ELSE IF i - u = p /\ k = "rep" THEN LongVal(1)
                     ELSE LongVal(i - u),
                     "md5_hash", i, 0)]

BatchTables ==
    {BatchTable(u, t, n, p, k) :
        u \in 0..MaxExtraRows,
        t \in SingleTags,
        n \in (0..MaxExtraRows)
               \cup ((FileBatchSize - 1)..(FileBatchSize + MaxExtraRows)),
        p \in {0, 2, FileBatchSize, FileBatchSize + 1,
               FileBatchSize + MaxExtraRows},
        k \in {"bad", "rep"}}

Reverse(s) == [i \in 1..Len(s) |-> s[Len(s) + 1 - i]]

\* response elements for a submitted value
ElemPlain == [response_code |-> 0]
ElemRes(m) == [resource |-> m, response_code |-> 1, positives |-> 2]
ElemFull(m) ==
    [resource |-> m, response_code |-> 1, positives |-> 2,
     md5 |-> <<"a">>, sha1 |-> <<"b">>, sha256 |-> <<"c">>]

HttpResponse(code, body) ==
    [status_code |-> code, body |-> body]

GarbageText == JStr(<<"<", "h", "t", "m", "l", ">">>)

\* responses to any batch: a transport failure without and with a body, a
\* 2xx response without a JSON body, an undecodable text, a single object,
\* and the list of the members' elements in request order and reversed
StructuredResponses(batch) ==
    {HttpResponse(403, NotJson),
     HttpResponse(403, JDict([error |-> <<"q">>])),
     HttpResponse(204, NotJson),
     HttpResponse(OK, GarbageText),
     HttpResponse(OK, JDict(ElemRes(batch[1]))),
     HttpResponse(OK, JList([i \in 1..Len(batch) |-> ElemRes(batch[i])])),
     HttpResponse(OK, JList(Reverse([i \in 1..Len(batch) |-> ElemRes(batch[i])])))}

\* responses to a small batch: objects without a "resource" field and
\* objects and lists with the hash fields filled
RichResponses(batch) ==
    {HttpResponse(403, NotJson),
     HttpResponse(403, JDict([error |-> <<"q">>])),
     HttpResponse(204, NotJson),
     HttpResponse(OK, GarbageText),
     HttpResponse(OK, JDict(ElemPlain)),
     HttpResponse(OK, JDict(ElemFull(batch[1]))),
     HttpResponse(OK, JList([i \in 1..Len(batch) |-> ElemFull(batch[i])])),
     HttpResponse(OK, JList(Reverse([i \in 1..Len(batch) |-> ElemRes(batch[i])])))}

NoKwargs == <<>>

\* the orders in which a list of n elements can come back
Perms(n) ==
    {p \in [1..n -> 1..n] : \A i, j \in 1..n : p[i] = p[j] => i = j}

\* a response element that names no observable, told apart by its position
ElemAt(i) == [response_code |-> i]

\* a "resource" value that no input row holds
ForeignResource == <<"z">>

\* responses that exercise the parser: a failure status with a body; bodies
\* that are not a list or an object (an undecodable text, a number); an
\* object as decodable text; single objects with and without "resource";
\* lists whose elements name the members in every order; lists in request
\* order whose elements name nothing or a foreign value; and lists one
\* element shorter and one longer than the batch
ParseResponses(batch) ==
    LET n == Len(batch)
        named == [i \in 1..n |-> ElemRes(batch[i])]
    IN  {HttpResponse(403, JDict(ElemRes(batch[1]))),
         HttpResponse(OK, GarbageText),
         HttpResponse(OK, JNum(7)),
         HttpResponse(OK, JStr(JsonDumps(JDict(ElemPlain)))),
         HttpResponse(OK, JDict(ElemRes(batch[1]))),
         HttpResponse(OK, JDict(ElemPlain)),
         HttpResponse(OK, JList([i \in 1..n |-> ElemAt(i)])),
         HttpResponse(OK, JList([i \in 1..n |->
             IF i = 1 THEN ElemRes(ForeignResource) ELSE named[i]])),
         HttpResponse(OK, JList(SubSeq(named, 1, n - 1))),
         HttpResponse(OK, JList(Append(named, ElemAt(n + 1))))}
        \cup {HttpResponse(OK, JList([i \in 1..n |-> named[p[i]]])) :
                 p \in Perms(n)}

\* the values of the rows the parser's responses are drawn for
ParseValues == {<<"a">>, <<"b">>, <<"c">>, <<"!">>}

\* responses to a request of either entry point: a failure status with an
\* object as body, a 2xx response without a JSON body, an undecodable
\* text, a single object, and the list of the members' elements
SingleResponses(batch) ==
    {HttpResponse(403, JDict(ElemRes(batch[1]))),
     HttpResponse(204, NotJson),
     HttpResponse(OK, GarbageText),
     HttpResponse(OK, JDict(ElemRes(batch[1]))),
     HttpResponse(OK, JList([i \in 1..Len(batch) |-> ElemRes(batch[i])]))}

\* the arguments of lookup_ioc
SingleValues == {<<"a">>, <<"A">>, <<"!">>}
SingleTypes == {"url", "md5_hash", "file_path"}
Outputs == {"dict", "frame"}

\* the caller's type-name mappings (**kwargs of lookup_iocs): none, its
\* own label for url, and a mapping for a name that is not a canonical type
AliasSets == {NoKwargs, [url |-> "link"], [link |-> "url"]}
AliasTags == {"url", "link", "other"}
AliasValues == {<<"a">>, <<"b">>}

\* rows looked up as ip addresses and as domains
NetTags == {"ipv4", "dns"}
NetValues == {<<"a">>, <<"b">>}

\* entries of "resolutions": with both keys, with neither, with one each
Resolutions ==
    <<[hostname |-> <<"x">>, ip_address |-> <<"1">>],
      [last_resolved |-> <<"t">>],
      [hostname |-> <<"y">>],
      [ip_address |-> <<"2">>]>>

\* entries of "detected_urls": with both keys and with one each
DetectedUrlEntries ==
    <<[url |-> <<"p">>, positives |-> 2],
      [positives |-> 4],
      [url |-> <<"q">>, positives |-> 3],
      [url |-> <<"r">>]>>

\* responses to an ip-address or domain request: a failure status, and
\* objects with a top-level "positives" that carry neither list, one of
\* the lists (in both orders, or empty) or both lists
NetResponses(batch) ==
    LET top == ElemRes(batch[1])
    IN  {HttpResponse(403, NotJson),
         HttpResponse(OK, JDict(top)),
         HttpResponse(OK, JDict([resolutions |-> Resolutions,
                                 detected_urls |-> DetectedUrlEntries]
                                @@ top))}
        \cup {HttpResponse(OK, JDict([resolutions |-> r] @@ top)) :
                 r \in {Resolutions, Reverse(Resolutions), <<>>}}
        \cup {HttpResponse(OK, JDict([detected_urls |-> u] @@ top)) :
                 u \in {DetectedUrlEntries, Reverse(DetectedUrlEntries),
                        <<>>}}

---------------------------------------------------------------------------
(* Specifications *)

\* small tables, up to MaxCalls calls on one session
CallSmall ==
    /\ calls < MaxCalls
    /\ \E d \in Tables(SmallValues, SmallTags, calls + 1,
                       MaxRows - rows_given) :
           LookupIocs(d, TRUE, NoKwargs)

GatewaySmall ==
    /\ pc = "submit"
    /\ \E response \in RichResponses(obs_batch) : SubmitReturn(response)

Next ==
    \/ CallSmall
    \/ LookupIocType
    \/ ProcessRow
    \/ GatewaySmall
    \/ LookupIocTypeReturn
    \/ LookupIocsReturn

Spec == Init /\ [][Next]_vars

\* tables of hash values in the hash types and as urls
CallHash ==
    /\ calls < MaxCalls
    /\ \E d \in Tables(HashValues, HashTags, calls + 1,
                       MaxRows - rows_given) :
           LookupIocs(d, TRUE, NoKwargs)

NextHash ==
    \/ CallHash
    \/ LookupIocType
    \/ ProcessRow
    \/ GatewaySmall
    \/ LookupIocTypeReturn
    \/ LookupIocsReturn

SpecHash == Init /\ [][NextHash]_vars

\* one call with a table that fills the file batch
CallBatch ==
    /\ calls < 1
    /\ \E d \in BatchTables : LookupIocs(d, FALSE, NoKwargs)

GatewayBatch ==
    /\ pc = "submit"
    /\ \E response \in StructuredResponses(obs_batch) : SubmitReturn(response)

NextBatch ==
    \/ CallBatch
    \/ LookupIocType
    \/ ProcessRow
    \/ GatewayBatch
    \/ LookupIocTypeReturn
    \/ LookupIocsReturn

SpecBatch == Init /\ [][NextBatch]_vars

\* one call of lookup_iocs, every shape of response
CallParse ==
    /\ calls < 1
    /\ \E d \in Tables(ParseValues, SmallTags, 1, MaxRows) :
           LookupIocs(d, TRUE, NoKwargs)

GatewayParse ==
    /\ pc = "submit"
    /\ \E response \in ParseResponses(obs_batch) : SubmitReturn(response)

NextParse ==
    \/ CallParse
    \/ LookupIocType
    \/ ProcessRow
    \/ GatewayParse
    \/ LookupIocTypeReturn
    \/ LookupIocsReturn

SpecParse == Init /\ [][NextParse]_vars

\* calls of both entry points on one session
CallTable ==
    /\ calls < MaxCalls
    /\ \E d \in Tables(SingleValues, SmallTags, calls + 1,
                       MaxRows - rows_given) :
           LookupIocs(d, TRUE, NoKwargs)

CallSingle ==
    /\ calls < MaxCalls
    /\ \E observable \in SingleValues, type \in SingleTypes,
          output \in Outputs :
           \E response \in SingleResponses(<<Normalize(observable)>>) :
               LookupIoc(observable, type, output, response)

GatewaySingle ==
    /\ pc = "submit"
    /\ \E response \in SingleResponses(obs_batch) : SubmitReturn(response)

NextSingle ==
    \/ CallTable
    \/ CallSingle
    \/ LookupIocType
    \/ ProcessRow
    \/ GatewaySingle
    \/ LookupIocTypeReturn
    \/ LookupIocsReturn

SpecSingle == Init /\ [][NextSingle]_vars

\* one call of lookup_iocs on ip addresses and domains
CallNet ==
    /\ calls < 1
    /\ \E d \in Tables(NetValues, NetTags, 1, MaxRows) :
           LookupIocs(d, TRUE, NoKwargs)

GatewayNet ==
    /\ pc = "submit"
    /\ \E response \in NetResponses(obs_batch) : SubmitReturn(response)

NextNet ==
    \/ CallNet
    \/ LookupIocType
    \/ ProcessRow
    \/ GatewayNet
    \/ LookupIocTypeReturn
    \/ LookupIocsReturn

SpecNet == Init /\ [][NextNet]_vars

\* calls of lookup_iocs with type-name mappings
CallAlias ==
    /\ calls < MaxCalls
    /\ \E d \in Tables(AliasValues, AliasTags, calls + 1,
                       MaxRows - rows_given), kwargs \in AliasSets :
           LookupIocs(d, TRUE, kwargs)

NextAlias ==
    \/ CallAlias
    \/ LookupIocType
    \/ ProcessRow
    \/ GatewaySmall
    \/ LookupIocTypeReturn
    \/ LookupIocsReturn

SpecAlias == Init /\ [][NextAlias]_vars

---------------------------------------------------------------------------
(* Batching: C1, C2, C3 *)

\* the maximum batch size the registry gives the type's descriptor
MaxBatchSizeOf(t) ==
    IF t \in {"md5_hash", "sha1_hash", "sh256_hash"} THEN 25 ELSE 1

\* the values a submission string holds
ValuesOfSubmission(t, submission) ==
    IF t \in {"md5_hash", "sha1_hash", "sh256_hash"}
    THEN Split(submission, <<",">>)
    ELSE IF t = "url" THEN Split(submission, <<"\n">>)
    ELSE <<submission>>

RequestsOfType(t) == SelectSeq(sent, LAMBDA q : q.ioc_type = t)
AcceptedOfType(t) == SelectSeq(accepted, LAMBDA a : a.ioc_type = t)

RECURSIVE MembersSent(_)
\* the members of the requests of a log, in the order they were sent
MembersSent(log) ==
    IF log = <<>> THEN <<>>
    ELSE Head(log).obs_batch \o MembersSent(Tail(log))

\* C1: at every point of the row loop the pending batch holds at most
\* maxBatchSize values of the type's descriptor (25 for the hash types, 1
\* for url, ipv4 and dns), and so does every submission string the Gateway
\* was handed.
C1_BatchWithinMax ==
    /\ pc \in {"rows", "submit"} =>
           Len(obs_batch) <= MaxBatchSizeOf(ioc_type)
    /\ \A i \in 1..Len(sent) :
           /\ Len(sent[i].obs_batch) <= MaxBatchSizeOf(sent[i].ioc_type)
           /\ Len(ValuesOfSubmission(sent[i].ioc_type, sent[i].obs_submit))
                  <= MaxBatchSizeOf(sent[i].ioc_type)

\* a full file batch is in flight while rows of the slice are left
C1_Witness ==
    /\ pc = "submit"
    /\ ioc_type = "md5_hash"
    /\ Len(obs_batch) = 25
    /\ Len(Split(obs_submit, <<",">>)) = 25
    /\ row_num < row_count

\* C2: a pass of the row loop ends in a flush (one request to the Gateway)
\* if and only if the pending batch is non-empty and holds exactly
\* maxBatchSize values or the row is the last of the slice; so when the row
\* loop of a type ends, the n observables it accepted caused ceil(n / 25)
\* requests for a hash type and n requests for the other types.
C2_FlushIff ==
    [][/\ (pc = "rows" /\ row_num' = row_num + 1) =>
            LET flushed == pc' = "submit"
                cond == /\ obs_batch' # <<>>
                        /\ \/ Len(obs_batch') = MaxBatchSizeOf(ioc_type)
                           \/ row_num' = Len(input_frame)
            IN  /\ flushed <=> cond
                /\ flushed => /\ Len(sent') = Len(sent) + 1
                              /\ SubSeq(sent', 1, Len(sent)) = sent
                              /\ sent'[Len(sent')].obs_batch = obs_batch'
                /\ ~flushed => sent' = sent /\ pc' = "rows"
       /\ (pc = "rows" /\ pc' = "types") =>
            LET n == Len(AcceptedOfType(ioc_type))
                bs == MaxBatchSizeOf(ioc_type)
            IN  Len(RequestsOfType(ioc_type)) = (n + bs - 1) \div bs
      ]_vars

\* the row loop of md5_hash ended after 26 accepted observables and two
\* requests, the first sent at row 25
C2_Witness ==
    /\ pc = "types"
    /\ type_pos = 5
    /\ Len(AcceptedOfType("md5_hash")) = 26
    /\ Len(RequestsOfType("md5_hash")) = 2
    /\ Len(RequestsOfType("md5_hash")[1].obs_batch) = 25
    /\ Len(RequestsOfType("md5_hash")[2].obs_batch) = 1

\* C3: the observables that passed validation and the duplicate check are,
\* in order, exactly the members of the requests sent plus the pending
\* batch; each request's submission string holds exactly its members; and
\* when _lookup_ioc_type has returned the pending batch is empty.
C3_AcceptedAllSubmitted ==
    LET values == [i \in 1..Len(accepted) |-> accepted[i].Observable]
    IN  /\ pc = "rows" => MembersSent(sent) \o obs_batch = values
        /\ pc \in {"submit", "types"} => MembersSent(sent) = values
        /\ pc = "types" /\ type_pos > 1 => obs_batch = <<>>
        /\ \A i \in 1..Len(sent) :
               ValuesOfSubmission(sent[i].ioc_type, sent[i].obs_submit)
                   = sent[i].obs_batch

\* _lookup_ioc_type returned after a slice whose last row was rejected and
\* triggered the flush of the pending batch
C3_Witness ==
    /\ pc = "types"
    /\ input_frame # <<>>
    /\ pp_observable.observable = None
    /\ sent # <<>>
    /\ sent[Len(sent)].row_num = row_count
    /\ sent[Len(sent)].ioc_type = _SUPPORTED_INPUT_TYPES[type_pos - 1]
    /\ obs_batch = <<>>

---------------------------------------------------------------------------
(* Duplicate detection: C4, C5, C6, C7 *)

\* the step is a pass of the row loop
RowStep == pc = "rows" /\ row_num' = row_num + 1

\* the input row a pass of the row loop consumes, and its index
CurrentRow == input_frame[row_num + 1]
CurrentIndex ==
    IF src_idx_col THEN CurrentRow.SourceIndex ELSE CurrentRow.idx

SanitizerAccepts(observable, t) ==
    preprocess_observable(observable, t).observable # None

RowsNamed(observable) ==
    SelectSeq(results, LAMBDA r : r.Observable = observable)

RowsWithHash(observable) ==
    SelectSeq(results, LAMBDA r :
        \/ r.MD5 = Some(observable)
        \/ r.SHA1 = Some(observable)
        \/ r.SHA256 = Some(observable))

\* the row is withheld from the batch; a request sent in the same pass is
\* the flush of the batch that was pending before the row
Withheld ==
    /\ obs_batch' = obs_batch
    /\ source_row_index' = source_row_index
    /\ accepted' = accepted
    /\ \/ sent' = sent
       \/ /\ Len(sent') = Len(sent) + 1
          /\ SubSeq(sent', 1, Len(sent)) = sent
          /\ sent'[Len(sent')].obs_batch = obs_batch

\* the pass appended one clone of every row of matches, re-indexed, marked
\* Duplicate and named by the submitted value, and reported their indices
ClonesAppended(matches, observable, idx) ==
    /\ Len(results') = Len(results) + Len(matches)
    /\ SubSeq(results', 1, Len(results)) = results
    /\ \A i \in 1..Len(matches) :
           results'[Len(results) + i] =
               [matches[i] EXCEPT !.SourceIndex = idx,
                                  !.Status = "Duplicate",
                                  !.Observable = observable]
    /\ pp_observable'.observable = None
    /\ pp_observable'.status =
           <<"Duplicates of",
             [i \in 1..Len(matches) |-> matches[i].SourceIndex]>>

\* C4: when a valid input row's value equals the Observable of rows of the
\* table, the value is not added to the batch and no request is issued for
\* it; one clone of every matching row is appended with the new row's
\* SourceIndex, Status "Duplicate" and the submitted value as Observable,
\* and the diagnostic lists the SourceIndex values the matched rows had.
C4_DuplicateByObservable ==
    [][RowStep =>
        LET observable == CurrentRow.Observable
            matches == RowsNamed(observable)
        IN  (SanitizerAccepts(observable, ioc_type) /\ matches # <<>>) =>
                /\ Withheld
                /\ ClonesAppended(matches, observable, CurrentIndex)
                /\ \A i \in 1..Len(matches) :
                       matches[i].Observable = observable
      ]_vars

\* a url row was found to duplicate two rows of the table
C4_Witness ==
    /\ pc \in {"rows", "submit"}
    /\ ioc_type = "url"
    /\ pp_observable.status[1] = "Duplicates of"
    /\ Len(pp_observable.status[2]) >= 2
    /\ Len(results) >= 4
    /\ results[Len(results)].Status = "Duplicate"
    /\ results[Len(results) - 1].Status = "Duplicate"

\* C5: a valid input row of a hash type whose value equals no row's
\* Observable but the MD5, SHA1 or SHA256 cell of rows of the table is a
\* duplicate: every such row is cloned with Observable overwritten by the
\* submitted value and no request is issued for it.  For the other types
\* the hash columns are not searched: such a row is accepted.
C5_DuplicateByHash ==
    [][RowStep =>
        LET observable == CurrentRow.Observable
            by_hash == RowsWithHash(observable)
            valid == SanitizerAccepts(observable, ioc_type)
        IN  /\ (/\ ioc_type \in {"md5_hash", "sha1_hash", "sh256_hash"}
                /\ valid
                /\ RowsNamed(observable) = <<>>
                /\ by_hash # <<>>) =>
                    /\ Withheld
                    /\ ClonesAppended(by_hash, observable, CurrentIndex)
            /\ (/\ ioc_type \in {"ipv4", "dns", "url"}
                /\ valid
                /\ RowsNamed(observable) = <<>>) =>
                    /\ results' = results
                    /\ Len(accepted') = Len(accepted) + 1
                    /\ accepted'[Len(accepted')].SourceIndex = CurrentIndex
      ]_vars

\* a sh256_hash row was found to duplicate a row that does not name it in
\* Observable but holds it in a hash cell
C5_Witness ==
    /\ pc \in {"rows", "submit"}
    /\ ioc_type = "sh256_hash"
    /\ pp_observable.status[1] = "Duplicates of"
    /\ Len(pp_observable.status[2]) = 1
    /\ LET clone == results[Len(results)]
       IN  /\ clone.Status = "Duplicate"
           /\ clone.SHA256 = Some(clone.Observable)
           /\ \A j \in 1..(Len(results) - 1) :
                  results[j].Observable # clone.Observable

\* C6: a hash-type input row whose value is, up to letter case and
\* normalization, the Observable, MD5, SHA1 or SHA256 of a row of the table
\* gets a Duplicate row and no request.
C6_DedupCaseEquivalent ==
    [][RowStep =>
        LET observable == CurrentRow.Observable
            o == Normalize(observable)
        IN  (/\ ioc_type \in {"md5_hash", "sha1_hash", "sh256_hash"}
             /\ SanitizerAccepts(observable, ioc_type)
             /\ \E i \in 1..Len(results) :
                    /\ results[i].IoCType
                          \in {"md5_hash", "sha1_hash", "sh256_hash"}
                    /\ \/ Normalize(results[i].Observable) = o
                       \/ results[i].MD5 = Some(o)
                       \/ results[i].SHA1 = Some(o)
                       \/ results[i].SHA256 = Some(o)) =>
                /\ accepted' = accepted
                /\ Len(results') > Len(results)
                /\ results'[Len(results')].Status = "Duplicate"
                /\ results'[Len(results')].SourceIndex = CurrentIndex
      ]_vars

\* the SourceIndex belongs to a row of the first call
OfFirstCall(i) == i < IndexBase(2)

---------------------------------------------------------------------------
(* Transport failures: C8, C9, C10 *)

\* the step is the return of a Gateway call with a non-success status
FailureStep == pc = "submit" /\ pc' = "rows" /\ status_code' # OK

\* the rows a step appended
NewRows == SubSeq(results', Len(results) + 1, Len(results'))

\* the session has just handled a failed request of n members
AfterFailureOf(n) ==
    /\ pc = "rows"
    /\ status_code = 403
    /\ obs_batch = <<>>
    /\ sent # <<>>
    /\ sent[Len(sent)].row_num = row_num
    /\ Len(sent[Len(sent)].obs_batch) = n
    /\ Len(results) >= n

\* C8: when the Gateway returns a non-success status for a batch of k
\* observables, exactly k rows are appended, one per member in order, each
\* with Status "Failed submission: http error {statusCode}", an empty
\* ResponseCode, the member as Observable and the index recorded for the
\* member as SourceIndex; none of them is a Success row.
C8_UniformBatchFailure ==
    [][FailureStep =>
        /\ SubSeq(results', 1, Len(results)) = results
        /\ Len(NewRows) = Len(obs_batch)
        /\ \A i \in 1..Len(obs_batch) :
               /\ NewRows[i].Observable = obs_batch[i]
               /\ NewRows[i].IoCType = ioc_type
               /\ NewRows[i].Status =
                      "Failed submission: http error " \o ToString(status_code')
               /\ status_code' = 403 =>
                      NewRows[i].Status = "Failed submission: http error 403"
               /\ NewRows[i].Status # "Success"
               /\ NewRows[i].ResponseCode = None
               /\ NewRows[i].SourceIndex = source_row_index[obs_batch[i]]
      ]_vars

\* a full file batch failed and got its 25 failure rows
C8_Witness ==
    /\ AfterFailureOf(25)
    /\ \A i \in 1..25 :
           /\ results[Len(results) - 25 + i].Status
                  = "Failed submission: http error 403"
           /\ results[Len(results) - 25 + i].Observable
                  = sent[Len(sent)].obs_batch[i]

\* C9 as stated: on a non-success status the failure row of every member
\* holds in RawResponse the body the Gateway returned, when one was returned.
C9_FailureRowHoldsBody ==
    [][(FailureStep /\ vt_results'.kind # "none") =>
        \A i \in 1..Len(NewRows) :
            NewRows[i].RawResponse = Some(JsonDumps(vt_results'))
      ]_vars

\* C9 amended: on a non-success status the failure row of every member has
\* an empty RawResponse (and no other cell filled than Observable, IoCType,
\* Status and SourceIndex), whether or not the Gateway returned a body.
C9_FailureRowRawResponseEmpty ==
    [][FailureStep =>
        \A i \in 1..Len(NewRows) :
            /\ NewRows[i].RawResponse = None
            /\ \A c \in DOMAIN BlankCells : NewRows[i][c] = None
      ]_vars

\* a request failed with a body and its failure rows were appended
C9_Witness ==
    /\ AfterFailureOf(2)
    /\ vt_results.kind = "dict"
    /\ results[Len(results)].Status = "Failed submission: http error 403"
    /\ results[Len(results)].RawResponse = None

\* C10: a non-success status neither aborts the run nor causes a retry.
\* The step that handles it leaves the row loop where a success leaves it:
\* the batch is empty, no request is issued, the position in the slice, the
\* slice, the type loop and the table of the call are unchanged and the call
\* goes on; a step that appended failure rows never ends the call; every
\* request holds only observables accepted since the request before it; and
\* the row loop and the type loop end only when exhausted.
C10_FailureDoesNotAbort ==
    [][/\ FailureStep =>
            /\ obs_batch' = <<>>
            /\ sent' = sent
            /\ outcome' = "running"
            /\ UNCHANGED <<row_num, input_frame, type_pos, data, accepted,
                           ioc_custom_type_map>>
       /\ (pc = "submit" /\ \E i \in 1..Len(NewRows) :
                                NewRows[i].Status # "Success") =>
            pc' = "rows"
       /\ (RowStep /\ pc' = "submit") =>
            MembersSent(sent') =
                [i \in 1..Len(accepted') |-> accepted'[i].Observable]
       /\ (pc = "rows" /\ pc' = "types") =>
            row_num = Len(input_frame) /\ obs_batch = <<>>
       /\ (pc = "types" /\ pc' = "idle") =>
            type_pos > Len(_SUPPORTED_INPUT_TYPES)
      ]_vars

\* a call is about to return after a request of the url, ipv4 or dns rows
\* failed and a later request of the md5_hash rows succeeded
C10_Witness ==
    /\ pc = "types"
    /\ type_pos > Len(_SUPPORTED_INPUT_TYPES)
    /\ Len(sent) >= 2
    /\ \E i \in 1..Len(results) :
           /\ results[i].Status = "Failed submission: http error 403"
           /\ results[i].IoCType # "md5_hash"
    /\ results[Len(results)].Status = "Success"
    /\ results[Len(results)].IoCType = "md5_hash"

---------------------------------------------------------------------------
(* Response correlation: C11, C12, C13, C14, C15, C16 *)

\* the step is the return of a Gateway call with status 200 whose body
\* the parser handled without an exception
AnswerStep == pc = "submit" /\ pc' = "rows" /\ status_code' = OK

\* the input rows that contributed the members of the batch in flight
BatchRows ==
    SubSeq(accepted, Len(accepted) - Len(obs_batch) + 1, Len(accepted))

\* the index of the input row that submitted the value v of the batch
IndexOfRow(v) ==
    BatchRows[CHOOSE k \in 1..Len(BatchRows) :
                  BatchRows[k].Observable = v].SourceIndex

Distinct(s) == \A i, j \in 1..Len(s) : s[i] = s[j] => i = j

\* the body as decoded text when it is decodable text
Decoded(body) == IF body.kind = "str" THEN JsonLoads(body) ELSE body

\* the elements the shape rule takes from a body for a type
ElementsOf(body, t) ==
    IF Decoded(body).kind = "list" /\ MaxBatchSizeOf(t) > 1
    THEN Decoded(body).val
    ELSE IF Decoded(body).kind = "dict" THEN <<Decoded(body).val>>
    ELSE <<>>

\* the parts of the submission string in flight
SubmittedLiterals ==
    IF ioc_type \in {"md5_hash", "sha1_hash", "sh256_hash"}
    THEN Split(obs_submit, <<",">>)
    ELSE IF ioc_type = "url" THEN Split(obs_submit, <<"\n">>)
    ELSE <<obs_submit>>

\* C11: for a batch of two or more distinct hash values answered by a list
\* that holds, in any order, one element per member with "resource" equal
\* to the member, every appended row has Observable equal to its element's
\* resource and SourceIndex equal to the index of the input row that
\* submitted that value, not of the row at the element's position.
C11_ReorderingResilience ==
    [][(/\ AnswerStep
        /\ ioc_type \in {"md5_hash", "sha1_hash", "sh256_hash"}
        /\ Len(obs_batch) >= 2
        /\ Distinct(obs_batch)
        /\ vt_results'.kind = "list"
        /\ Len(vt_results'.val) = Len(obs_batch)
        /\ \A i \in 1..Len(vt_results'.val) :
               "resource" \in DOMAIN vt_results'.val[i]
        /\ {vt_results'.val[i]["resource"] : i \in 1..Len(vt_results'.val)}
               = {obs_batch[i] : i \in 1..Len(obs_batch)}) =>
            /\ Len(NewRows) = Len(obs_batch)
            /\ \A i \in 1..Len(NewRows) :
                   /\ NewRows[i].Status = "Success"
                   /\ NewRows[i].Observable = vt_results'.val[i]["resource"]
                   /\ NewRows[i].SourceIndex =
                          IndexOfRow(vt_results'.val[i]["resource"])
      ]_vars

\* three hashes were answered by a list that names them in another order
\* and every row carries the index of the row that submitted its value
C11_Witness ==
    /\ pc = "rows"
    /\ status_code = OK
    /\ vt_results.kind = "list"
    /\ obs_batch = <<>>
    /\ sent # <<>>
    /\ sent[Len(sent)].row_num = row_num
    /\ sent[Len(sent)].obs_batch = <<<<"a">>, <<"b">>, <<"c">>>>
    /\ Len(vt_results.val) = 3
    /\ vt_results.val[1] = ElemRes(<<"c">>)
    /\ vt_results.val[2] = ElemRes(<<"a">>)
    /\ vt_results.val[3] = ElemRes(<<"b">>)
    /\ Len(results) = 3
    /\ results[1].Observable = <<"c">>
    /\ results[1].SourceIndex = IndexBase(1) + 3
    /\ results[2].Observable = <<"a">>
    /\ results[2].SourceIndex = IndexBase(1) + 1
    /\ results[3].Observable = <<"b">>
    /\ results[3].SourceIndex = IndexBase(1) + 2

\* C12: when a list response of two or more elements is correlated against
\* a map of two or more entries, the row of an element that has no
\* "resource" field, or whose "resource" is not a key of the map, has
\* Observable equal to the literal of the submission string at the
\* element's position and SourceIndex equal to the map entry of it.
C12_PositionalFallback ==
    [][(/\ AnswerStep
        /\ Len(ElementsOf(vt_results', ioc_type)) >= 2
        /\ Cardinality(DOMAIN source_row_index) >= 2) =>
            \A i \in 1..Len(NewRows) :
                LET elem == ElementsOf(vt_results', ioc_type)[i]
                IN  ("resource" \notin DOMAIN elem
                        \/ elem["resource"] \notin DOMAIN source_row_index) =>
                       /\ NewRows[i].Observable = SubmittedLiterals[i]
                       /\ NewRows[i].SourceIndex =
                              source_row_index[SubmittedLiterals[i]]
      ]_vars

\* C13: for a batch of N distinct hash values answered by a list of N
\* elements in request order (each element names its member or nothing),
\* N Success rows are appended and the i-th carries the SourceIndex of the
\* i-th input row of the batch.
C13_OrderPreservation ==
    [][(/\ AnswerStep
        /\ ioc_type \in {"md5_hash", "sha1_hash", "sh256_hash"}
        /\ Distinct(obs_batch)
        /\ vt_results'.kind = "list"
        /\ Len(vt_results'.val) = Len(obs_batch)
        /\ \A i \in 1..Len(vt_results'.val) :
               "resource" \in DOMAIN vt_results'.val[i] =>
                   vt_results'.val[i]["resource"] = obs_batch[i]) =>
            /\ Len(NewRows) = Len(obs_batch)
            /\ \A i \in 1..Len(NewRows) :
                   /\ NewRows[i].Status = "Success"
                   /\ NewRows[i].SourceIndex = BatchRows[i].SourceIndex
      ]_vars

\* C14: when the body yields exactly one element, or the map has fewer
\* than two entries, every appended row has Observable equal to the whole
\* submission string and SourceIndex equal to the index of the input row
\* consumed when the flush fired, whatever the element's "resource" is;
\* one element gives exactly one row.
C14_DirectAssignment ==
    [][(/\ AnswerStep
        /\ \/ Len(ElementsOf(vt_results', ioc_type)) = 1
           \/ Cardinality(DOMAIN source_row_index) < 2) =>
            /\ Len(NewRows) = Len(ElementsOf(vt_results', ioc_type))
            /\ \A i \in 1..Len(NewRows) :
                   /\ NewRows[i].Status = "Success"
                   /\ NewRows[i].Observable = obs_submit
                   /\ NewRows[i].SourceIndex = index
      ]_vars

\* two hashes were answered by one object naming the first of them: the
\* one row is named by the whole submission string
C14_Witness ==
    /\ pc = "rows"
    /\ status_code = OK
    /\ vt_results = JDict(ElemRes(<<"a">>))
    /\ obs_batch = <<>>
    /\ sent # <<>>
    /\ sent[Len(sent)].row_num = row_num
    /\ sent[Len(sent)].obs_batch = <<<<"a">>, <<"b">>>>
    /\ obs_submit = <<"a", ",", "b">>
    /\ Len(results) = 1
    /\ results[1].Observable = <<"a", ",", "b">>
    /\ results[1].SourceIndex = index
    /\ results[1].Resource = Some(<<"a">>)

\* C15: when a body returned with status 200 is text that does not decode,
\* or is neither a list nor an object, no row is appended, the table is
\* unchanged and the row loop goes on with an empty batch; and a Gateway
\* call that appended no row never ends the call of lookup_iocs.
C15_ParseFailureDropsBatch ==
    [][/\ (AnswerStep /\ Decoded(vt_results').kind \notin {"list", "dict"}) =>
            /\ results' = results
            /\ obs_batch' = <<>>
            /\ outcome' = "running"
            /\ UNCHANGED <<row_num, input_frame, type_pos, data>>
       /\ (pc = "submit" /\ results' = results) => pc' = "rows"
      ]_vars

\* a request was answered with status 200 and an undecodable text: the
\* table is as it was and rows of the slice are left to process
C15_Witness ==
    /\ pc = "rows"
    /\ status_code = OK
    /\ vt_results = GarbageText
    /\ obs_batch = <<>>
    /\ sent # <<>>
    /\ sent[Len(sent)].row_num = row_num
    /\ results = <<>>
    /\ row_num < row_count

\* the step is a whole call of lookup_ioc that returned to its caller
SingleStep ==
    /\ pc = "idle"
    /\ pc' = "idle"
    /\ calls' = calls + 1
    /\ outcome' = "returned"

\* C16: a list body is parsed element by element only for a descriptor
\* whose batch size exceeds 1: on the batch path a list gives one row per
\* element for the hash types and no row for url, ipv4 and dns; through
\* lookup_ioc, which passes no descriptor, a list gives no row for any
\* type; an object gives exactly one row on both paths.
C16_ShapeRule ==
    [][/\ (AnswerStep /\ vt_results'.kind = "list") =>
            IF MaxBatchSizeOf(ioc_type) > 1
            THEN Len(NewRows) = Len(vt_results'.val)
            ELSE results' = results
       /\ (AnswerStep /\ vt_results'.kind = "dict") =>
            /\ Len(NewRows) = 1
            /\ NewRows[1].RawResponse = Some(JsonDumps(vt_results'))
       /\ (SingleStep /\ vt_results'.kind = "list") => results' = results
       /\ (SingleStep /\ vt_results'.kind = "dict") =>
            /\ Len(NewRows) = 1
            /\ SubSeq(results', 1, Len(results)) = results
            /\ NewRows[1].RawResponse = Some(JsonDumps(vt_results'))
      ]_vars

\* lookup_ioc of a hash was answered with status 200 and a one-element
\* list and left the table empty
C16_Witness ==
    /\ pc = "idle"
    /\ outcome = "returned"
    /\ status_code = OK
    /\ vt_results.kind = "list"
    /\ Len(vt_results.val) = 1
    /\ Len(sent) = 1
    /\ sent[1].ioc_type = "md5_hash"
    /\ sent[1].row_num = 0
    /\ results = <<>>

---------------------------------------------------------------------------
(* The results table: C17, C18 *)

\* C17: every step of a session, through lookup_iocs and lookup_ioc alike,
\* leaves the rows the table had as an unchanged prefix of the table, in
\* the same order; the number of rows never decreases.
C17_AppendOnly ==
    [][/\ Len(results') >= Len(results)
       /\ SubSeq(results', 1, Len(results)) = results
      ]_vars

\* a table that holds an invalid-input row, a failure row, a duplicate
\* clone and a parsed row after calls of both entry points
C17_Witness ==
    /\ pc = "idle"
    /\ calls = 2
    /\ \E i \in 1..Len(results) : results[i].Status = "Success"
    /\ \E i \in 1..Len(results) : results[i].Status = "Duplicate"
    /\ \E i \in 1..Len(results) :
           results[i].Status = "Failed submission: http error 403"
    /\ \E i \in 1..Len(results) :
           results[i].Status = "Observable does not match expected pattern"
    /\ results[1].Status = "Success"
    /\ results[1].SourceIndex = 0

\* C18: the rows of one flushed batch are one block at the end of the
\* table in the order they were produced: the Gateway step appends them
\* after the rows the table had, all of the batch's type and either all
\* Success rows or the failure rows of all members; and no other step
\* appends a Success or failure row, so nothing is placed between them.
C18_BatchRowsContiguous ==
    [][/\ pc = "submit" =>
            /\ SubSeq(results', 1, Len(results)) = results
            /\ \A i \in 1..Len(NewRows) : NewRows[i].IoCType = ioc_type
            /\ \/ \A i \in 1..Len(NewRows) : NewRows[i].Status = "Success"
               \/ /\ Len(NewRows) = Len(obs_batch)
                  /\ \A i \in 1..Len(NewRows) :
                         /\ NewRows[i].Status = FailedStatus(status_code')
                         /\ NewRows[i].Observable = obs_batch[i]
       /\ pc # "submit" =>
            /\ SubSeq(results', 1, Len(results)) = results
            /\ \A i \in 1..Len(NewRows) :
                   \/ NewRows[i].Status = "Duplicate"
                   \/ /\ NewRows[i].Status =
                            "Observable does not match expected pattern"
                      /\ NewRows[i].RawResponse = None
      ]_vars

\* an invalid-input row, then the two Success rows of one batch, in the
\* order of the response, at the end of the table
C18_Witness ==
    /\ pc = "rows"
    /\ status_code = OK
    /\ obs_batch = <<>>
    /\ sent # <<>>
    /\ sent[Len(sent)].row_num = row_num
    /\ Len(sent[Len(sent)].obs_batch) = 2
    /\ Len(results) = 3
    /\ results[1].Status = "Observable does not match expected pattern"
    /\ results[2].Status = "Success"
    /\ results[3].Status = "Success"
    /\ results[2].RawResponse = Some(JsonDumps(JDict(vt_results.val[1])))
    /\ results[3].RawResponse = Some(JsonDumps(JDict(vt_results.val[2])))

---------------------------------------------------------------------------
(* Sequencing: C19 *)

\* the place of a canonical type in the order of the type loop
TypeOrder(t) ==
    CHOOSE i \in 1..Len(_SUPPORTED_INPUT_TYPES) : _SUPPORTED_INPUT_TYPES[i] = t

\* C19: batches are strictly sequential.  While a Gateway call is
\* outstanding no row is consumed, validated or accepted and no other
\* request is issued; a request is issued only from the row loop, after
\* the call before it has been handled, and for rows consumed after that
\* call; the type loop moves on only when every row of the slice has been
\* consumed and the batch is empty; so the accepted rows and the requests
\* of a call are ordered by canonical type.
C19_StrictlySequential ==
    [][/\ (pc = "submit" /\ pc' # "idle") =>
            /\ pc' = "rows"
            /\ UNCHANGED <<row_num, index, pp_observable, accepted, sent,
                           type_pos, input_frame>>
       /\ (sent' # sent /\ sent' # <<>>) =>
            /\ pc = "rows"
            /\ pc' = "submit"
            /\ Len(sent') = Len(sent) + 1
            /\ SubSeq(sent', 1, Len(sent)) = sent
            /\ \A i \in 1..Len(sent) :
                   sent[i].ioc_type = ioc_type =>
                       sent[i].row_num < sent'[Len(sent')].row_num
       /\ (pc = "rows" /\ type_pos' # type_pos) =>
            /\ row_num = Len(input_frame)
            /\ obs_batch = <<>>
       /\ \A i, j \in 1..Len(accepted') :
               i < j => TypeOrder(accepted'[i].ioc_type)
                           <= TypeOrder(accepted'[j].ioc_type)
       /\ \A i, j \in 1..Len(sent') :
               i < j => TypeOrder(sent'[i].ioc_type)
                           <= TypeOrder(sent'[j].ioc_type)
      ]_vars

\* a call that issued a request for its url row, then, after that was
\* handled, one request for its two md5_hash rows, is about to return
C19_Witness ==
    /\ pc = "types"
    /\ type_pos > Len(_SUPPORTED_INPUT_TYPES)
    /\ Len(sent) = 2
    /\ sent[1].ioc_type = "url"
    /\ sent[2].ioc_type = "md5_hash"
    /\ Len(sent[2].obs_batch) = 2
    /\ Len(accepted) = 3
    /\ Len(results) = 3
    /\ results[1].IoCType = "url"
    /\ results[2].IoCType = "md5_hash"

---------------------------------------------------------------------------
(* Validation errors: C20 *)

\* C20: an input row the Sanitizer rejects gets exactly one row, with the
\* raw value as Observable, the Sanitizer's failure text as Status and the
\* row's index as SourceIndex, whatever rows the table holds for the same
\* value; the value is not added to the batch, the loop goes on, and no
\* request ever holds a value the Sanitizer rejects.
C20_ValidationError ==
    [][/\ (RowStep /\ ~SanitizerAccepts(CurrentRow.Observable, ioc_type)) =>
            /\ results' =
                   Append(results,
                          [Observable |-> CurrentRow.Observable,
                           IoCType |-> ioc_type,
                           Status |-> preprocess_observable(
                                          CurrentRow.Observable,
                                          ioc_type).status[1],
                           SourceIndex |-> CurrentIndex] @@ BlankCells)
            /\ Withheld
            /\ pp_observable'.observable = None
            /\ pc' \in {"rows", "submit"}
            /\ outcome' = "running"
       /\ \A i \in 1..Len(sent') :
               \A k \in 1..Len(sent'[i].obs_batch) :
                   SanitizerAccepts(sent'[i].obs_batch[k], sent'[i].ioc_type)
      ]_vars

\* a second row with the same malformed value got its own invalid-input
\* row and no clone of the first
C20_Witness ==
    /\ pc = "rows"
    /\ pp_observable.observable = None
    /\ pp_observable.status[1] = "Observable does not match expected pattern"
    /\ Len(results) = 2
    /\ results[1].Observable = <<"!">>
    /\ results[2].Observable = <<"!">>
    /\ results[1].Status = "Observable does not match expected pattern"
    /\ results[2].Status = "Observable does not match expected pattern"
    /\ results[1].IoCType = results[2].IoCType
    /\ results[1].SourceIndex # results[2].SourceIndex
    /\ results[2].SourceIndex = index
    /\ sent = <<>>

---------------------------------------------------------------------------
(* Outcomes of a row and of a batch: C21, C22 *)

\* the kind of outcome a row of the table records
StatusKind(st) ==
    IF st = "Success" THEN "Success"
    ELSE IF st = "Duplicate" THEN "Duplicate"
    ELSE IF st = "Observable does not match expected pattern" THEN "Invalid"
    ELSE "Failed"

\* C21: within one lookup_iocs call over rows with distinct source
\* identifiers, the rows of the table that carry the same SourceIndex all
\* record the same kind of outcome (Invalid, Duplicate, Success or
\* Failed): an input row that got an invalid-input or Duplicate row never
\* also gets a Success or failure row.
C21_OneOutcomePerRow ==
    \A i, j \in 1..Len(results) :
        results[i].SourceIndex = results[j].SourceIndex =>
            StatusKind(results[i].Status) = StatusKind(results[j].Status)

\* C22: the rows a flushed batch contributes are all failure rows, one
\* per member, or all Success rows, one per response element, or none: a
\* Gateway step never appends a Success row and a failure row together,
\* nor failure rows for a part of the batch.
C22_NoPartialBatch ==
    [][pc = "submit" =>
        \/ results' = results
        \/ /\ Len(NewRows) = Len(obs_batch)
           /\ pc' = "rows"
           /\ status_code' # OK
           /\ \A i \in 1..Len(NewRows) :
                  /\ StatusKind(NewRows[i].Status) = "Failed"
                  /\ NewRows[i].Observable = obs_batch[i]
        \/ /\ \A i \in 1..Len(NewRows) : NewRows[i].Status = "Success"
           /\ pc' = "rows" =>
                  /\ status_code' = OK
                  /\ Len(NewRows) = Len(ElementsOf(vt_results', ioc_type))
      ]_vars

\* a batch of three hashes got status 403 with a body that names one of
\* them: the table holds the three failure rows and no Success row
C22_Witness ==
    /\ pc = "rows"
    /\ status_code = 403
    /\ vt_results.kind = "dict"
    /\ "resource" \in DOMAIN vt_results.val
    /\ obs_batch = <<>>
    /\ sent # <<>>
    /\ sent[Len(sent)].row_num = row_num
    /\ Len(sent[Len(sent)].obs_batch) = 3
    /\ Len(results) = 3
    /\ \A i \in 1..3 : StatusKind(results[i].Status) = "Failed"

---------------------------------------------------------------------------
(* Field extraction: C23, C24 *)

\* C23: in a Success row of type url or of one of the three hash types
\* the registry maps to the file descriptor, ResponseCode, VerboseMsg,
\* ScanId, Resource, Permalink and Positives equal the fields of the
\* row's response element, and for the hash types MD5, SHA1 and SHA256
\* equal the element's md5, sha1 and sha256.
C23_FieldExtraction ==
    [][(AnswerStep /\ _VT_TYPE_MAP[ioc_type] \in {"url", "file"}) =>
        \A i \in 1..Len(NewRows) :
            LET elem == ElementsOf(vt_results', ioc_type)[i]
            IN  /\ NewRows[i].ResponseCode = Get(elem, "response_code")
                /\ NewRows[i].VerboseMsg = Get(elem, "verbose_msg")
                /\ NewRows[i].ScanId = Get(elem, "scan_id")
                /\ NewRows[i].Resource = Get(elem, "resource")
                /\ NewRows[i].Permalink = Get(elem, "permalink")
                /\ NewRows[i].Positives = Get(elem, "positives")
                /\ _VT_TYPE_MAP[ioc_type] = "file" =>
                       /\ NewRows[i].MD5 = Get(elem, "md5")
                       /\ NewRows[i].SHA1 = Get(elem, "sha1")
                       /\ NewRows[i].SHA256 = Get(elem, "sha256")
      ]_vars

\* the values under key of the entries that have it, in list order
ValuesUnder(entries, key) ==
    LET having == SelectSeq(entries, LAMBDA e : key \in DOMAIN e)
    IN  [i \in 1..Len(having) |-> having[i][key]]

RECURSIVE CommaJoined(_)
\* the texts with ", " between neighbours
CommaJoined(texts) ==
    IF Len(texts) = 0 THEN <<>>
    ELSE IF Len(texts) = 1 THEN texts[1]
    ELSE CommaJoined(SubSeq(texts, 1, Len(texts) - 1))
         \o <<",", " ">> \o texts[Len(texts)]

RECURSIVE Total(_)
Total(nums) ==
    IF Len(nums) = 0 THEN 0
    ELSE Total(SubSeq(nums, 1, Len(nums) - 1)) + nums[Len(nums)]

\* C24: in the Success row of an ip-address response that carries
\* "resolutions", ResolvedDomains is the hostnames of the entries joined
\* with ", " in list order, and in that of a domain response ResolvedIPs is
\* the joined ip_address values; when the response carries
\* "detected_urls", DetectedUrls is the joined url values in list order and
\* Positives the sum of the positives of the entries, whatever top-level
\* "positives" the response has.
C24_Flattening ==
    [][(AnswerStep /\ ioc_type \in {"ipv4", "dns"}) =>
        \A i \in 1..Len(NewRows) :
            LET elem == ElementsOf(vt_results', ioc_type)[i]
            IN  /\ (ioc_type = "ipv4" /\ "resolutions" \in DOMAIN elem) =>
                       NewRows[i].ResolvedDomains =
                           Some(CommaJoined(ValuesUnder(elem.resolutions,
                                                        "hostname")))
                /\ (ioc_type = "dns" /\ "resolutions" \in DOMAIN elem) =>
                       NewRows[i].ResolvedIPs =
                           Some(CommaJoined(ValuesUnder(elem.resolutions,
                                                        "ip_address")))
                /\ "detected_urls" \in DOMAIN elem =>
                       /\ NewRows[i].DetectedUrls =
                              Some(CommaJoined(ValuesUnder(elem.detected_urls,
                                                           "url")))
                       /\ NewRows[i].Positives =
                              Some(Total(ValuesUnder(elem.detected_urls,
                                                     "positives")))
      ]_vars

\* an ip-address row and a domain row were answered by the object with
\* both lists and a top-level "positives" of 2: the hostnames are "x, y",
\* the addresses "1, 2", the urls "p, q, r" and Positives is 2 + 4 + 3
C24_Witness ==
    /\ pc = "idle"
    /\ Len(results) = 2
    /\ results[1].IoCType = "ipv4"
    /\ results[2].IoCType = "dns"
    /\ results[1].ResolvedDomains = Some(<<"x", ",", " ", "y">>)
    /\ results[1].ResolvedIPs = None
    /\ results[2].ResolvedIPs = Some(<<"1", ",", " ", "2">>)
    /\ results[2].ResolvedDomains = None
    /\ \A i \in 1..2 :
           /\ results[i].Status = "Success"
           /\ results[i].DetectedUrls =
                  Some(<<"p", ",", " ", "q", ",", " ", "r">>)
           /\ results[i].Positives = Some(9)

---------------------------------------------------------------------------
(* The single-observable entry point: C25, C26 *)

\* the step is a whole call of lookup_ioc
LookupIocCall == pc = "idle" /\ pc' = "idle" /\ calls' = calls + 1

\* the six canonical type names
CanonicalNames ==
    {"ipv4", "dns", "url", "md5_hash", "sha1_hash", "sh256_hash"}

\* C25: a call of lookup_ioc with a type that is not a canonical type
\* raises to the caller: no Gateway call is made and the table is left
\* unchanged.
C25_UnknownTypeRaises ==
    [][(LookupIocCall /\ lookup_ioc_args'[1].ioc_type \notin CanonicalNames)
        => /\ outcome' = "raised"
           /\ retval' = None
           /\ sent' = <<>>
           /\ results' = results
      ]_vars

\* the second call on a session whose table holds a row is lookup_ioc of
\* a well-formed value with the type "file_path": it raised and sent
\* nothing, and the table still holds its row
C25_Witness ==
    /\ pc = "idle"
    /\ calls = 2
    /\ outcome = "raised"
    /\ lookup_ioc_args # None
    /\ lookup_ioc_args[1].ioc_type = "file_path"
    /\ lookup_ioc_args[1].observable = <<"a">>
    /\ sent = <<>>
    /\ Len(results) = 1
    /\ results[1].Status = "Success"

\* C26: a call of lookup_ioc with the 'dict' output that the Gateway
\* answers with status 200 and an object issues exactly one request, whose
\* submission string is the normalized value alone, and returns a single
\* record that describes that observable, whatever calls were made on the
\* session before.
C26_SingleRecord ==
    [][(/\ LookupIocCall
        /\ outcome' = "returned"
        /\ lookup_ioc_args'[1].output = "dict"
        /\ status_code' = OK
        /\ vt_results'.kind = "dict")
        => /\ Len(sent') = 1
           /\ sent'[1].obs_submit = Normalize(lookup_ioc_args'[1].observable)
           /\ sent'[1].obs_batch = <<sent'[1].obs_submit>>
           /\ retval' # None
           /\ retval'[1].kind = "record"
           /\ retval'[1].val.Observable = sent'[1].obs_submit
           /\ retval'[1].val.IoCType = lookup_ioc_args'[1].ioc_type
      ]_vars

---------------------------------------------------------------------------
(* Type-name mappings: C27 *)

\* C27: the rows lookup_iocs processes as a canonical type are the rows
\* tagged with the canonical name together with the rows tagged with the
\* caller's alias for it; rows tagged with neither are in no slice, so they
\* get no result row and no Gateway call.
C27_AliasesAdditional ==
    [][(pc = "types" /\ pc' = "rows") =>
        input_frame' =
            SelectSeq(data,
                      LAMBDA r : \/ r.IoCType = ioc_type
                                 \/ r.IoCType = ioc_custom_type_map[ioc_type])
      ]_vars

---------------------------------------------------------------------------
(* The pending batch and the source index of its rows: C28, C29 *)

\* C28: the value-to-SourceIndex map handed to the parser for a batch has
\* as keys exactly the members of that batch: a flush resets the map
\* together with the list of values.
C28_MapIsBatch ==
    pc = "submit" =>
        DOMAIN source_row_index = {obs_batch[i] : i \in 1..Len(obs_batch)}

\* C29: every Success row lookup_iocs appends for a batch that names a
\* member of the batch carries the index of the input row that contributed
\* that member, also when the batch is flushed at the end of the input by
\* the pass of a last row that is itself invalid or a duplicate.
C29_SourceIndexOfOwnRow ==
    [][AnswerStep =>
        \A i \in 1..Len(NewRows) :
            (\E k \in 1..Len(BatchRows) :
                 BatchRows[k].Observable = NewRows[i].Observable)
            => NewRows[i].SourceIndex = IndexOfRow(NewRows[i].Observable)
      ]_vars

---------------------------------------------------------------------------
(* Duplicates of failed submissions: C30 *)

\* C30: a valid input row whose value names only failure rows of the
\* table (rows of a batch that got a non-success status) is not a
\* duplicate: the row pass appends no row for it and adds it to the
\* pending batch for submission.
C30_FailedIsResubmitted ==
    [][RowStep =>
        LET observable == CurrentRow.Observable
            matches == RowsNamed(observable)
        IN  (/\ SanitizerAccepts(observable, ioc_type)
             /\ matches # <<>>
             /\ RowsWithHash(observable) = <<>>
             /\ \A i \in 1..Len(matches) :
                    StatusKind(matches[i].Status) = "Failed")
            => /\ results' = results
               /\ Len(accepted') = Len(accepted) + 1
               /\ obs_batch' = Append(obs_batch, pp_observable'.observable[1])
      ]_vars

---------------------------------------------------------------------------
(* Success rows and the status code of the response: C31 *)

\* C31: a step appends a row with Status "Success" only from a Gateway
\* response whose status code is a success code, in lookup_iocs and in
\* lookup_ioc alike: a non-success response with an object as body gives
\* lookup_ioc no Success row.  (A step in which the parser raises keeps no
\* status code; the parser runs in lookup_iocs only for status 200.)
C31_SuccessOnlyFromSuccessCode ==
    [][(/\ outcome' # "raised"
        /\ \E i \in 1..Len(NewRows) : NewRows[i].Status = "Success")
        => status_code' \div 100 = 2
      ]_vars

---------------------------------------------------------------------------
(* The Observable of a Success row: C32 *)

\* C32: the Observable of every Success row appended for a batch is one
\* member of that batch: never the delimiter-joined string of several
\* members and never a "resource" value the batch did not submit.
C32_ObservableIsMember ==
    [][(pc = "submit" /\ pc' = "rows") =>
        \A i \in 1..Len(NewRows) :
            NewRows[i].Status = "Success" =>
                \E k \in 1..Len(obs_batch) :
                    NewRows[i].Observable = obs_batch[k]
      ]_vars

---------------------------------------------------------------------------
(* Responses longer than the batch: C33 *)

\* C33: the parser completes for a list response of any length without
\* raising and appends at most one row per member of the flushed batch: a
\* response with more elements than the batch has members neither aborts
\* the call nor adds extra rows.  (The Gateway itself returns every
\* response of this specification without raising.)
C33_ParserTotal ==
    [][pc = "submit" =>
        /\ outcome' # "raised"
        /\ Len(NewRows) <= Len(obs_batch)
      ]_vars

---------------------------------------------------------------------------
(* Repeated duplicates: C34 *)

\* C34: when a valid input row repeats an observable that has one
\* original Success row in the table, whatever the number of earlier
\* repeats, the row pass appends exactly one Duplicate row: rows that are
\* themselves Duplicate clones are not matched and cloned again.
C34_LinearGrowth ==
    [][RowStep =>
        LET observable == CurrentRow.Observable
            originals == SelectSeq(RowsNamed(observable),
                                   LAMBDA r : r.Status # "Duplicate")
        IN  (/\ SanitizerAccepts(observable, ioc_type)
             /\ Len(originals) = 1
             /\ originals[1].Status = "Success")
            => /\ Len(results') = Len(results) + 1
               /\ results'[Len(results')].Status = "Duplicate"
               /\ results'[Len(results')].SourceIndex = CurrentIndex
      ]_vars

====
